---------------------------- MODULE Spec2Model ----------------------------
(***************************************************************************)
(* FUB BEMS: the simulation core (simulate_data.py) and the recording /    *)
(* monitoring layer (app_bems.py) as a state machine.                      *)
(*                                                                         *)
(* Threads: the APScheduler job thread ("recorder") runs                   *)
(* record_building_data; a Flask request thread ("request") runs the HTTP  *)
(* handlers and, in the core specification, the core functions directly.   *)
(* update_offline_rooms is not atomic in the source: it is modelled one    *)
(* shared access (clock, LAST_OFFLINE_UPDATE, OFFLINE_ROOMS) per step.      *)
(*                                                                         *)
(* Units: time in seconds, power in hundredths of a watt (cW), energy in   *)
(* hundredths of a kWh, fluctuation fractions in percent, a uniform draw   *)
(* U(-1,1) as one of its extremes or its midpoint: -1, 0 or 1.             *)
(* A Python list whose order is never observed (OFFLINE_ROOMS is only      *)
(* tested with "in") is a bag, so that duplicates remain expressible.      *)
(***************************************************************************)
EXTENDS Integers, Sequences, FiniteSets, Bags, TLC

(***************************** bounds *************************************)
NumRooms == 6          \* catalog size of the concurrent specifications
BigRooms == 11         \* catalog size of the sampling specification
MaxTicks == 3          \* clock advances per behaviour
TickSeconds == 300     \* seconds per clock advance
MaxRecTicks == 2       \* recorder ticks per behaviour
MaxToggles == 2        \* monitoring toggles per behaviour
MaxHours == 1          \* |hours| asked of generate_historical_data
RecRooms == 5          \* catalog size of the recorder specification
LongTickSeconds == 700 \* seconds per clock advance of the sampling specification
MaxLongTicks == 1      \* clock advances per behaviour of the sampling specification
MaxCatalog == 7        \* largest catalog of the refresh specification

(************************ program constants ********************************)
REFRESH_SECONDS == 600
MIN_OFFLINE == 5
MAX_OFFLINE == 6
AC_FLUCTUATION == 15         \* percent
FAN_FLUCTUATION == 8
LIGHT_FLUCTUATION == 5
DEVICE_FLUCTUATION == 10
RANDOM_NOISE == 20           \* W
PC_STANDBY_PCT == 5          \* idle PC draw, percent of rated
LIGHT_STANDBY_PCT == 30      \* the one light left on, percent of rated
MIN_INACTIVE_W == 10
MIN_ACTIVE_W == 100
INTERVAL_MINUTES == 5
ACTIVE_PROB_PCT == 85
ACTIVE_HOURS == 8
STANDBY_HOURS == 16
DAILY_STANDBY_PCT == 5
TARIFF_TENTHS == 85          \* 8.5 BDT/kWh

VARIABLES
    ROOM_CONFIG,          \* catalog: sequence of room profiles, ids 1..Len
    OFFLINE_ROOMS,        \* bag of room ids
    LAST_OFFLINE_UPDATE,  \* << >> for None, <<t>> otherwise
    now,                  \* the wall clock, datetime.now(BD_TZ)
    op,                   \* per thread: the handler or core function running
    pc,                   \* per thread: position inside it
    room_id,              \* per thread: the room the current call is about
    arg,                  \* per thread: the other arguments of a core call
    current_time,         \* per thread: update_offline_rooms' local current_time
    rooms,                \* per thread: get_building_summary's local rooms list
    summary,              \* per thread: the building summary it holds
    ret,                  \* per thread: the value returned / response sent
    MONITORING_ENABLED,   \* global monitoring flag
    ROOM_MONITORING,      \* per-room monitoring flags
    table,                \* committed rows of energy_readings, in id order
    pending,              \* rows inserted by the open, uncommitted transaction
    idx,                  \* record_building_data's position in summary.rooms
    ticks,                \* number of recorder ticks started
    log,                  \* what record_building_data printed, one entry per tick
    toggles               \* number of toggle requests served

occ_vars == <<OFFLINE_ROOMS, LAST_OFFLINE_UPDATE>>
thread_vars == <<op, pc, room_id, arg, current_time, rooms, summary, ret>>
flag_vars == <<MONITORING_ENABLED, ROOM_MONITORING>>
rec_vars == <<table, pending, idx, ticks, log>>
local_vars == <<room_id, arg, current_time, rooms, summary>>
vars == <<ROOM_CONFIG, OFFLINE_ROOMS, LAST_OFFLINE_UPDATE, now,
          op, pc, room_id, arg, current_time, rooms, summary, ret,
          MONITORING_ENABLED, ROOM_MONITORING, table, pending, idx, ticks, log,
          toggles>>

Threads == {"recorder", "request"}

NoRet == [kind |-> "none"]
NoArg == [kind |-> "none"]

(***************************** catalog *************************************)
\* room_config.json is an input. Its rooms are given one of three profiles:
\* the room of the spec's scenario (rated sum 2130 W), a room with no equipment
\* at all, and a computer lab. ROOM_CONFIG maps a room id to its profile's name.
ProfileNames == <<"R1", "bare", "lab">>

Profile(name) ==
    IF name = "R1" THEN
       [equipment |-> [ac |-> 1, fan |-> 2, light |-> 4, projector |-> 1, pc |-> 1],
        wattage   |-> [ac |-> 1500, fan |-> 60, light |-> 40, projector |-> 150, pc |-> 200]]
    ELSE IF name = "bare" THEN
       [equipment |-> [ac |-> 0, fan |-> 0, light |-> 0, projector |-> 0, pc |-> 0],
        wattage   |-> [ac |-> 1500, fan |-> 75, light |-> 20, projector |-> 250, pc |-> 150]]
    ELSE
       [equipment |-> [ac |-> 2, fan |-> 4, light |-> 6, projector |-> 1, pc |-> 20],
        wattage   |-> [ac |-> 2000, fan |-> 75, light |-> 18, projector |-> 300, pc |-> 250]]

Catalog(n) == [r \in 1..n |-> ProfileNames[((r - 1) % Len(ProfileNames)) + 1]]

RoomIds == DOMAIN ROOM_CONFIG

(************************* occupancy model *********************************)
RandInt(lo, hi) == lo..hi

\* Drawing with replacement, as random.choices would: an element may repeat.
RandomChoices(population, k) ==
    {SetToBag(S) : S \in {X \in SUBSET population : Cardinality(X) = k}}
    \cup {SetToBag(S) (+) SetToBag({x}) :
            S \in {X \in SUBSET population : Cardinality(X) = k - 1}, x \in population}

\* random.sample(population, k): k distinct elements; ValueError when k
\* exceeds the population (the empty set of outcomes here, see SampleRaises).
RandomSample(population, k) ==
    {SetToBag(S) : S \in {X \in SUBSET population : Cardinality(X) = k}}

\* A sample refused as soon as it would take the whole population.
SampleRaisesWhenNotLarger(population, k) == k >= Cardinality(population)

SampleRaises(population, k) == k > Cardinality(population)

RefreshDue(last, t) == last = << >> \/ t - last[1] > REFRESH_SECONDS

IsOffline(r, offline) == BagIn(r, offline)

(**************************** power model **********************************)
\* The values a uniform draw is given: both ends and the centre of U(-1, 1).
Draws == {-1, 0, 1}
DrawNames == {"ac", "fan", "light", "projector", "pc", "noise"}
DrawVectors == [DrawNames -> Draws]

Max(a, b) == IF a >= b THEN a ELSE b

\* Python's round(n / d, 0) for d > 0: to nearest, ties to even.
RoundHalfEven(n, d) ==
    LET q == n \div d
        r == n % d
    IN  IF 2 * r < d THEN q
        ELSE IF 2 * r > d THEN q + 1
        ELSE IF q % 2 = 0 THEN q ELSE q + 1

Fluctuation(equipment_type) ==
    IF equipment_type = "ac" THEN AC_FLUCTUATION
    ELSE IF equipment_type = "fan" THEN FAN_FLUCTUATION
    ELSE IF equipment_type = "light" THEN LIGHT_FLUCTUATION
    ELSE DEVICE_FLUCTUATION

\* calculate_equipment_power, in cW; u is the draw of random.uniform(-1, 1).
EquipmentPower(equipment_type, base_wattage, count, u) ==
    LET power == base_wattage * count
        variation == power * Fluctuation(equipment_type) * u
    IN  power * 100 + variation

\* The sum returned as it is, without max(minimum, ...).
NoFloor(minimum_w, power_cw) == power_cw

Floor(minimum_w, power_cw) == Max(minimum_w * 100, power_cw)

\* calculate_room_power past the catalog lookup, in cW; d names the draws.
RoomPower(config, is_active, d) ==
    LET equipment == config.equipment
        wattage == config.wattage
        noise == RANDOM_NOISE * 100 * d["noise"]
    IN  IF ~is_active
        THEN Floor(MIN_INACTIVE_W,
                   wattage.pc * equipment.pc * PC_STANDBY_PCT
                   + wattage.light * 1 * LIGHT_STANDBY_PCT + noise)
        ELSE Floor(MIN_ACTIVE_W,
                   EquipmentPower("ac", wattage.ac, equipment.ac, d["ac"])
                   + EquipmentPower("fan", wattage.fan, equipment.fan, d["fan"])
                   + EquipmentPower("light", wattage.light, equipment.light, d["light"])
                   + EquipmentPower("projector", wattage.projector,
                                    equipment.projector, d["projector"])
                   + EquipmentPower("pc", wattage.pc, equipment.pc, d["pc"])
                   + noise)

Value(v) == [kind |-> "value", value |-> v]
Raise(e) == [kind |-> "raise", exc |-> e]
None == [kind |-> "value", value |-> "None"]

\* ROOM_CONFIG[room_id]: KeyError for a key the dict does not hold.
calculate_room_power(config_of, r, is_active, d) ==
    IF r \notin DOMAIN config_of THEN Raise("KeyError")
    ELSE Value(RoomPower(Profile(config_of[r]), is_active, d))

(************************ energy / cost metrics ****************************)
\* The rated sum with the projector forgotten.
ActivePowerNoProjector(config) ==
    config.wattage.ac * config.equipment.ac
    + config.wattage.fan * config.equipment.fan
    + config.wattage.light * config.equipment.light
    + config.wattage.pc * config.equipment.pc

ActivePower(config) ==
    config.wattage.ac * config.equipment.ac
    + config.wattage.fan * config.equipment.fan
    + config.wattage.light * config.equipment.light
    + config.wattage.projector * config.equipment.projector
    + config.wattage.pc * config.equipment.pc

\* daily_kwh rounded to 2 decimals, in hundredths of a kWh:
\* (P * 8 + P * 0.05 * 16) / 1000 kWh = (P * 8 * 100 + P * 5 * 16) / 1000 ckWh.
DailyEnergy(config) ==
    LET active_power == ActivePower(config)
    IN  RoundHalfEven(active_power * ACTIVE_HOURS * 100
                      + active_power * DAILY_STANDBY_PCT * STANDBY_HOURS, 1000)

calculate_daily_energy(config_of, r) ==
    IF r \notin DOMAIN config_of THEN Raise("KeyError")
    ELSE Value(DailyEnergy(Profile(config_of[r])))

\* kwh * 8.5 rounded to 2 decimals, in hundredths of a BDT.
calculate_daily_cost(config_of, r) ==
    LET kwh == calculate_daily_energy(config_of, r)
    IN  IF kwh.kind = "raise" THEN kwh
        ELSE Value(RoundHalfEven(kwh.value * TARIFF_TENTHS, 10))

\* dict.get: None for a key the dict does not hold.
get_room_config(config_of, r) ==
    IF r \in DOMAIN config_of THEN Value(Profile(config_of[r])) ELSE None

\* schedules.json holds an entry for some rooms only.
Schedules(config_of) ==
    [r \in {x \in DOMAIN config_of : x % 4 # 0} |-> [course_code |-> r]]

get_room_schedule(config_of, r) ==
    IF r \in DOMAIN Schedules(config_of) THEN Value(Schedules(config_of)[r]) ELSE None


(************************** history synthesizer ****************************)
\* The random module is a generator with hidden state: the k-th draw of a
\* call is a function of the state the call found it in (seed).
Seeds == {0, 13, 58, 86}
\* The sub-second part of a clock reading, in milliseconds.
Millis == {0, 999}
Hours == -MaxHours..MaxHours

RandomPct(seed, k) == (seed + 37 * k) % 100
UniformDraw(seed, k) == (RandomPct(seed, k) % 3) - 1

\* '%Y-%m-%d %H:%M:%S': a datetime (here in ms) cut to the second.
Strftime(t_ms) == t_ms \div 1000

\* The series ending at now: timedelta(minutes=5 * (total_points - i - 1)).
TimePointEndingNow(t_ms, total_points, i) ==
    t_ms - INTERVAL_MINUTES * 60 * 1000 * (total_points - i - 1)

\* current_time - timedelta(minutes=interval_minutes * (total_points - i))
TimePoint(t_ms, total_points, i) ==
    t_ms - INTERVAL_MINUTES * 60 * 1000 * (total_points - i)

HistoryPoint(config, t_ms, total_points, i, seed) ==
    LET is_active == RandomPct(seed, 8 * i) < ACTIVE_PROB_PCT
        d == [ac |-> UniformDraw(seed, 8 * i + 1), fan |-> UniformDraw(seed, 8 * i + 2),
              light |-> UniformDraw(seed, 8 * i + 3),
              projector |-> UniformDraw(seed, 8 * i + 4),
              pc |-> UniformDraw(seed, 8 * i + 5), noise |-> UniformDraw(seed, 8 * i + 6)]
    IN  [timestamp |-> Strftime(TimePoint(t_ms, total_points, i)),
         power |-> RoomPower(config, is_active, d),
         is_active |-> is_active]

TotalPoints(hours) == (hours * 60) \div INTERVAL_MINUTES

\* generate_historical_data: range(total_points) is empty for a count <= 0;
\* the first iteration looks the room up (KeyError).
generate_historical_data(config_of, r, hours, t_ms, seed) ==
    LET total_points == TotalPoints(hours)
    IN  IF total_points <= 0 THEN Value(<< >>)
        ELSE IF r \notin DOMAIN config_of THEN Raise("KeyError")
        ELSE Value([j \in 1..total_points |->
                      HistoryPoint(Profile(config_of[r]), t_ms, total_points, j - 1, seed)])

(***************************** initial state *******************************)
\* Module load: OFFLINE_ROOMS = [], LAST_OFFLINE_UPDATE = None,
\* MONITORING_ENABLED = True, init_room_monitoring() sets every room ON,
\* init_database() leaves an empty table on a fresh store.
InitAt(n, t0) ==
    /\ ROOM_CONFIG = Catalog(n)
    /\ OFFLINE_ROOMS = EmptyBag
    /\ LAST_OFFLINE_UPDATE = << >>
    /\ now = t0
    /\ op = [t \in Threads |-> "idle"]
    /\ pc = [t \in Threads |-> "idle"]
    /\ room_id = [t \in Threads |-> 0]
    /\ arg = [t \in Threads |-> NoArg]
    /\ current_time = [t \in Threads |-> 0]
    /\ rooms = [t \in Threads |-> << >>]
    /\ summary = [t \in Threads |-> NoRet]
    /\ ret = [t \in Threads |-> NoRet]
    /\ MONITORING_ENABLED = TRUE
    /\ ROOM_MONITORING = [r \in 1..n |-> TRUE]
    /\ table = << >>
    /\ pending = << >>
    /\ idx = 0
    /\ ticks = 0
    /\ log = << >>
    /\ toggles = 0

InitWith(n) == InitAt(n, 0)

Init == InitWith(NumRooms)

(******************************* helpers ***********************************)
CoreOps == {"get_room_data", "calculate_room_power", "calculate_daily_energy",
            "calculate_daily_cost", "generate_historical_data",
            "get_room_config", "get_room_schedule"}
SummaryOps == {"record_building_data", "get_building_status"}

Http(status, body) == [kind |-> "http", status |-> status, body |-> body]

\* The per-room flag ignored.
MonitoredAlways(flags, r) == TRUE

\* ROOM_MONITORING.get(room_id, True)
Monitored(flags, r) == IF r \in DOMAIN flags THEN flags[r] ELSE TRUE

ActiveCount(readings) ==
    Cardinality({j \in DOMAIN readings : readings[j].is_active})

ClearLocals(t) ==
    /\ room_id' = [room_id EXCEPT ![t] = IF op[t] \in CoreOps THEN @ ELSE 0]
    /\ current_time' = [current_time EXCEPT ![t] = 0]
    /\ rooms' = [rooms EXCEPT ![t] = << >>]
    /\ summary' = [summary EXCEPT ![t] = NoRet]

\* A line record_building_data prints: "Recorded ..." or "Error recording
\* data: <e>", with the tick it belongs to.
LogLine(tick, msg, e) == [tick |-> tick, msg |-> msg, exc |-> e]

\* A store in autocommit mode: every INSERT is durable at once.
RollbackKeepsRows(committed, uncommitted) == committed \o uncommitted

\* The store after a connection is dropped with its transaction open:
\* sqlite rolls the uncommitted inserts back.
Rollback(committed, uncommitted) == committed

\* The store after conn.commit().
Commit(committed, uncommitted) == committed \o uncommitted

\* An exception e leaves the code at op[t] and reaches the try/except around it:
\* record_building_data prints and returns, an HTTP handler answers 500, a
\* core function called directly lets it out.
Unwind(t, e) ==
    /\ ClearLocals(t)
    /\ IF op[t] = "record_building_data"
       THEN /\ op' = [op EXCEPT ![t] = "idle"]
            /\ pc' = [pc EXCEPT ![t] = "idle"]
            /\ table' = Rollback(table, pending)
            /\ pending' = << >>
            /\ idx' = 0
            /\ log' = Append(log, LogLine(ticks, "error", e))
            /\ UNCHANGED <<ret, ticks>>
       ELSE /\ pc' = [pc EXCEPT ![t] = "done"]
            /\ ret' = [ret EXCEPT ![t] = IF op[t] \in CoreOps THEN Raise(e)
                                         ELSE Http(500, e)]
            /\ UNCHANGED <<op, rec_vars>>

(******************************* the clock *********************************)
\* datetime.now(BD_TZ) returns a later time: the clock moves by seconds, up to limit.
Advance(seconds, limit) ==
    /\ now < limit
    /\ now' = now + seconds
    /\ UNCHANGED <<ROOM_CONFIG, occ_vars, thread_vars, flag_vars, rec_vars, toggles>>

Tick == Advance(TickSeconds, MaxTicks * TickSeconds)

\* A pause longer than the refresh period.
LongTick == Advance(LongTickSeconds, MaxLongTicks * LongTickSeconds)

(********************* update_offline_rooms, step by step ******************)
\* current_time = datetime.now(BD_TZ)
\* if LAST_OFFLINE_UPDATE is None or (current_time - LAST_OFFLINE_UPDATE) > 600
\* One step: the clock read touches nothing another thread writes, so only the
\* read of LAST_OFFLINE_UPDATE is a point where the threads interleave.
UpdCheck(t) ==
    /\ pc[t] = "upd_check"
    /\ IF RefreshDue(LAST_OFFLINE_UPDATE, now)
       THEN /\ pc' = [pc EXCEPT ![t] = "upd_store"]
            /\ current_time' = [current_time EXCEPT ![t] = now]
       ELSE /\ pc' = [pc EXCEPT ![t] = "test"]
            /\ UNCHANGED current_time
    /\ UNCHANGED <<ROOM_CONFIG, occ_vars, now, op, room_id, rooms, summary, ret,
                   flag_vars, rec_vars, toggles, arg>>

\* The list object updated in place (OFFLINE_ROOMS.extend(...)) instead of rebound.
StoreOfflineInPlace(old, new) == old (+) new

\* The value the global OFFLINE_ROOMS holds once the assignment of a new list
\* has executed: one reference store.
StoreOffline(old, new) == new

\* num_offline = random.randint(5, 6); OFFLINE_ROOMS = random.sample(ids, num_offline)
UpdStore(t) ==
    /\ pc[t] = "upd_store"
    /\ \E num_offline \in RandInt(MIN_OFFLINE, MAX_OFFLINE) :
         IF SampleRaises(RoomIds, num_offline)
         THEN /\ Unwind(t, "ValueError")
              /\ UNCHANGED <<ROOM_CONFIG, occ_vars, now, flag_vars, toggles, arg>>
         ELSE /\ \E sample \in RandomSample(RoomIds, num_offline) :
                   OFFLINE_ROOMS' = StoreOffline(OFFLINE_ROOMS, sample)
              /\ pc' = [pc EXCEPT ![t] = "upd_stamp"]
              /\ UNCHANGED <<ROOM_CONFIG, LAST_OFFLINE_UPDATE, now, op, room_id,
                             current_time, rooms, summary, ret, flag_vars, rec_vars,
                             toggles, arg>>

\* LAST_OFFLINE_UPDATE = current_time
UpdStamp(t) ==
    /\ pc[t] = "upd_stamp"
    /\ LAST_OFFLINE_UPDATE' = <<current_time[t]>>
    /\ current_time' = [current_time EXCEPT ![t] = 0]
    /\ pc' = [pc EXCEPT ![t] = "test"]
    /\ UNCHANGED <<ROOM_CONFIG, OFFLINE_ROOMS, now, op, room_id, rooms, summary, ret,
                   flag_vars, rec_vars, toggles, arg>>

(****************** is_room_active's test and what follows it **************)
\* get_room_data past is_room_active, for a single room: the reading, or the
\* KeyError of calculate_room_power.
RoomReading(config_of, r, is_active, d) ==
    LET power == calculate_room_power(config_of, r, is_active, d)
    IN  IF power.kind = "raise" THEN power
        ELSE Value([room_id |-> r, power |-> power.value, is_active |-> is_active,
                    status |-> IF is_active THEN "ONLINE" ELSE "OFFLINE"])

\* room_id in OFFLINE_ROOMS, inside get_building_summary's loop: the reading is
\* appended and the loop moves on (power, current and voltage of the readings
\* of a summary are left out of the model).
TestInSummary(t) ==
    /\ pc[t] = "test"
    /\ op[t] \in SummaryOps
    /\ LET is_active == ~IsOffline(room_id[t], OFFLINE_ROOMS)
       IN  rooms' = [rooms EXCEPT ![t] =
                       Append(@, [room_id |-> room_id[t], is_active |-> is_active])]
    /\ IF room_id[t] < Len(ROOM_CONFIG)
       THEN /\ room_id' = [room_id EXCEPT ![t] = @ + 1]
            /\ pc' = [pc EXCEPT ![t] = "upd_check"]
       ELSE /\ room_id' = [room_id EXCEPT ![t] = 0]
            /\ pc' = [pc EXCEPT ![t] = "sum_ret"]
    /\ UNCHANGED <<ROOM_CONFIG, occ_vars, now, op, current_time, summary, ret,
                   flag_vars, rec_vars, toggles, arg>>

\* room_id in OFFLINE_ROOMS, then the rest of get_room_data, called directly.
TestInRoomData(t) ==
    /\ pc[t] = "test"
    /\ op[t] = "get_room_data"
    /\ \E d \in DrawVectors :
         LET is_active == ~IsOffline(room_id[t], OFFLINE_ROOMS)
             reading == RoomReading(ROOM_CONFIG, room_id[t], is_active, d)
         IN  IF reading.kind = "raise"
             THEN /\ Unwind(t, reading.exc)
             ELSE /\ ret' = [ret EXCEPT ![t] = reading]
                  /\ pc' = [pc EXCEPT ![t] = "done"]
                  /\ ClearLocals(t)
                  /\ UNCHANGED <<op, rec_vars>>
    /\ UNCHANGED <<ROOM_CONFIG, occ_vars, now, flag_vars, toggles, arg>>

\* room_id in OFFLINE_ROOMS, then the rest of get_room_status: the room is in
\* the catalog (checked on entry), so nothing raises; the response's measured
\* fields are left out of the model.
TestInRoomStatus(t) ==
    /\ pc[t] = "test"
    /\ op[t] = "get_room_status"
    /\ LET is_active == ~IsOffline(room_id[t], OFFLINE_ROOMS)
       IN  ret' = [ret EXCEPT ![t] =
                     Http(200, [room_id |-> room_id[t], is_active |-> is_active,
                                status |-> IF is_active THEN "ONLINE" ELSE "OFFLINE"])]
    /\ pc' = [pc EXCEPT ![t] = "done"]
    /\ ClearLocals(t)
    /\ UNCHANGED <<ROOM_CONFIG, occ_vars, now, op, flag_vars, rec_vars, toggles, arg>>

\* get_building_summary's return statement.
SumRet(t) ==
    /\ pc[t] = "sum_ret"
    /\ summary' = [summary EXCEPT ![t] =
                      [rooms |-> rooms[t], active_rooms |-> ActiveCount(rooms[t]),
                       total_rooms |-> Len(ROOM_CONFIG)]]
    /\ rooms' = [rooms EXCEPT ![t] = << >>]
    /\ IF op[t] = "record_building_data"
       THEN /\ pc' = [pc EXCEPT ![t] = "insert"]
            /\ idx' = 1
       ELSE /\ pc' = [pc EXCEPT ![t] = "status_resp"]
            /\ UNCHANGED idx
    /\ UNCHANGED <<ROOM_CONFIG, occ_vars, now, op, room_id, current_time, ret,
                   flag_vars, table, pending, ticks, log, toggles, arg>>

(**************************** request handlers *****************************)
StartSummary(t, o) ==
    /\ op' = [op EXCEPT ![t] = o]
    /\ pc' = [pc EXCEPT ![t] = "upd_check"]
    /\ room_id' = [room_id EXCEPT ![t] = 1]
    /\ rooms' = [rooms EXCEPT ![t] = << >>]

\* GET /api/building/status: enters get_building_summary().
GetBuildingStatus(t) ==
    /\ pc[t] = "idle"
    /\ StartSummary(t, "get_building_status")
    /\ UNCHANGED <<ROOM_CONFIG, occ_vars, now, current_time, summary, ret,
                   flag_vars, rec_vars, toggles, arg>>

\* get_building_status past the summary: the counts over the monitored rooms.
StatusResp(t) ==
    /\ pc[t] = "status_resp"
    /\ LET rs == summary[t].rooms
           monitored_active == Cardinality({j \in DOMAIN rs :
                 rs[j].is_active /\ Monitored(ROOM_MONITORING, rs[j].room_id)})
           total_monitored == Cardinality({r \in DOMAIN ROOM_MONITORING :
                 ROOM_MONITORING[r]})
       IN  ret' = [ret EXCEPT ![t] =
                     Http(200, [monitoring_enabled |-> MONITORING_ENABLED,
                                active_rooms |-> monitored_active,
                                total_rooms |-> total_monitored])]
    /\ pc' = [pc EXCEPT ![t] = "done"]
    /\ ClearLocals(t)
    /\ UNCHANGED <<ROOM_CONFIG, occ_vars, now, op, flag_vars, rec_vars, toggles, arg>>

\* GET /api/room/<room_id>/status: 404 for an unknown room, else get_room_data.
GetRoomStatus(t, r) ==
    /\ pc[t] = "idle"
    /\ op' = [op EXCEPT ![t] = "get_room_status"]
    /\ IF r \notin RoomIds
       THEN /\ ret' = [ret EXCEPT ![t] = Http(404, "Room not found")]
            /\ pc' = [pc EXCEPT ![t] = "done"]
            /\ UNCHANGED room_id
       ELSE /\ room_id' = [room_id EXCEPT ![t] = r]
            /\ pc' = [pc EXCEPT ![t] = "upd_check"]
            /\ UNCHANGED ret
    /\ UNCHANGED <<ROOM_CONFIG, occ_vars, now, current_time, rooms, summary,
                   flag_vars, rec_vars, toggles, arg>>

\* The handler returns; the thread is free for the next request.
Return(t) ==
    /\ pc[t] = "done"
    /\ pc' = [pc EXCEPT ![t] = "idle"]
    /\ op' = [op EXCEPT ![t] = "idle"]
    /\ ret' = [ret EXCEPT ![t] = NoRet]
    /\ room_id' = [room_id EXCEPT ![t] = 0]
    /\ arg' = [arg EXCEPT ![t] = NoArg]
    /\ UNCHANGED <<ROOM_CONFIG, occ_vars, now, current_time, rooms, summary,
                   flag_vars, rec_vars, toggles>>

\* POST /api/monitoring/toggle
ToggleMonitoring(t) ==
    /\ pc[t] = "idle"
    /\ toggles < MaxToggles
    /\ toggles' = toggles + 1
    /\ MONITORING_ENABLED' = ~MONITORING_ENABLED
    /\ op' = [op EXCEPT ![t] = "toggle_monitoring"]
    /\ pc' = [pc EXCEPT ![t] = "done"]
    /\ ret' = [ret EXCEPT ![t] = Http(200, ~MONITORING_ENABLED)]
    /\ UNCHANGED <<ROOM_CONFIG, occ_vars, now, local_vars, ROOM_MONITORING, rec_vars>>

\* The flag store rebuilt as init_room_monitoring builds it, then the room set.
FlipFlagAfterReset(flags, r) ==
    [x \in DOMAIN flags \cup {r} |-> IF x = r THEN ~flags[r] ELSE TRUE]

\* current_status = ROOM_MONITORING.get(room_id, True)
\* ROOM_MONITORING[room_id] = not current_status
FlipFlag(flags, r) ==
    [x \in DOMAIN flags \cup {r} |->
        IF x = r THEN ~Monitored(flags, r) ELSE flags[x]]

\* POST /api/room/<room_id>/monitoring/toggle
ToggleRoomMonitoring(t, r) ==
    /\ pc[t] = "idle"
    /\ toggles < MaxToggles
    /\ toggles' = toggles + 1
    /\ op' = [op EXCEPT ![t] = "toggle_room_monitoring"]
    /\ pc' = [pc EXCEPT ![t] = "done"]
    /\ room_id' = [room_id EXCEPT ![t] = r]
    /\ IF r \notin RoomIds
       THEN /\ ret' = [ret EXCEPT ![t] = Http(404, "Room not found")]
            /\ UNCHANGED ROOM_MONITORING
       ELSE /\ ROOM_MONITORING' = FlipFlag(ROOM_MONITORING, r)
            /\ ret' = [ret EXCEPT ![t] = Http(200, ~Monitored(ROOM_MONITORING, r))]
    /\ UNCHANGED <<ROOM_CONFIG, occ_vars, now, arg, current_time, rooms, summary,
                   MONITORING_ENABLED, rec_vars>>

(*************************** record_building_data **************************)
\* A row of energy_readings: its room and its tick, which stands for the row's
\* timestamp (the tick's current_time.isoformat(); ticks are 60 s apart, so it
\* tells them apart). The measured columns are left out of the model.
Row(reading, tick) == [room_id |-> reading.room_id, tick |-> tick]

\* The scheduler fires the job (every 60 s; the model lets it fire whenever the
\* previous run has returned). Disabled: return. Else sqlite3.connect, then
\* get_building_summary(current_time).
RecordStart(t) ==
    /\ pc[t] = "idle"
    /\ ticks < MaxRecTicks
    /\ ticks' = ticks + 1
    /\ IF ~MONITORING_ENABLED
       THEN UNCHANGED <<op, pc, room_id, rooms, pending>>
       ELSE /\ StartSummary(t, "record_building_data")
            /\ pending' = << >>
    /\ UNCHANGED <<ROOM_CONFIG, occ_vars, now, arg, current_time, summary, ret,
                   flag_vars, table, idx, log, toggles>>

\* The same, with sqlite3.connect raising: the except clause prints the error.
RecordStartFails(t) ==
    /\ pc[t] = "idle"
    /\ ticks < MaxRecTicks
    /\ MONITORING_ENABLED
    /\ ticks' = ticks + 1
    /\ log' = Append(log, LogLine(ticks + 1, "error", "connect failed"))
    /\ UNCHANGED <<ROOM_CONFIG, occ_vars, now, thread_vars, flag_vars, table, pending,
                   idx, toggles>>

\* One iteration of the loop over building_summary['rooms']: the INSERT of a
\* monitored room's row.
Insert(t) ==
    /\ pc[t] = "insert"
    /\ LET reading == summary[t].rooms[idx]
       IN  pending' = IF Monitored(ROOM_MONITORING, reading.room_id)
                      THEN Append(pending, Row(reading, ticks))
                      ELSE pending
    /\ IF idx < Len(summary[t].rooms)
       THEN idx' = idx + 1 /\ UNCHANGED pc
       ELSE idx' = 0 /\ pc' = [pc EXCEPT ![t] = "commit"]
    /\ UNCHANGED <<ROOM_CONFIG, occ_vars, now, op, local_vars, ret, flag_vars, table,
                   ticks, log, toggles>>

\* The INSERT of a monitored room's row raising.
InsertFails(t) ==
    /\ pc[t] = "insert"
    /\ Monitored(ROOM_MONITORING, summary[t].rooms[idx].room_id)
    /\ Unwind(t, "insert failed")
    /\ UNCHANGED <<ROOM_CONFIG, occ_vars, now, flag_vars, toggles, arg>>

\* conn.commit(), conn.close() and the line printed.
CommitTick(t) ==
    /\ pc[t] = "commit"
    /\ table' = Commit(table, pending)
    /\ pending' = << >>
    /\ log' = Append(log, LogLine(ticks, "recorded", ""))
    /\ pc' = [pc EXCEPT ![t] = "idle"]
    /\ op' = [op EXCEPT ![t] = "idle"]
    /\ ClearLocals(t)
    /\ UNCHANGED <<ROOM_CONFIG, occ_vars, now, ret, flag_vars, idx, ticks, toggles, arg>>

\* conn.commit() raising.
CommitFails(t) ==
    /\ pc[t] = "commit"
    /\ Unwind(t, "commit failed")
    /\ UNCHANGED <<ROOM_CONFIG, occ_vars, now, flag_vars, toggles, arg>>

(******************************* Spec **************************************)
\* The recorder thread and one request thread, racing on the occupancy state.
Next ==
    \/ Tick
    \/ \E t \in Threads : UpdCheck(t)
    \/ \E t \in Threads : UpdStore(t)
    \/ \E t \in Threads : UpdStamp(t)
    \/ \E t \in Threads : TestInSummary(t)
    \/ \E t \in Threads : SumRet(t)
    \/ GetBuildingStatus("request")
    \/ StatusResp("request")
    \/ Return("request")
    \/ RecordStart("recorder")
    \/ Insert("recorder")
    \/ CommitTick("recorder")

Spec == Init /\ [][Next]_vars

(***************************** SpecCore ************************************)
\* The core functions of simulate_data.py called directly, one call at a time,
\* for any room id: 0 is the id of no room.
AnyRoom == 0..Len(ROOM_CONFIG)

\* A call of a function that touches no shared state returns in one step.
CallReturns(t, o, r, a, result) ==
    /\ pc[t] = "idle"
    /\ op' = [op EXCEPT ![t] = o]
    /\ room_id' = [room_id EXCEPT ![t] = r]
    /\ arg' = [arg EXCEPT ![t] = a]
    /\ ret' = [ret EXCEPT ![t] = result]
    /\ pc' = [pc EXCEPT ![t] = "done"]
    /\ UNCHANGED <<ROOM_CONFIG, occ_vars, now, current_time, rooms, summary,
                   flag_vars, rec_vars, toggles>>

\* get_room_data(room_id): enters is_room_active.
CallGetRoomData(t, r) ==
    /\ pc[t] = "idle"
    /\ op' = [op EXCEPT ![t] = "get_room_data"]
    /\ room_id' = [room_id EXCEPT ![t] = r]
    /\ pc' = [pc EXCEPT ![t] = "upd_check"]
    /\ UNCHANGED <<ROOM_CONFIG, occ_vars, now, arg, current_time, rooms, summary, ret,
                   flag_vars, rec_vars, toggles>>

CallRoomPower(t, r, is_active) ==
    /\ pc[t] = "idle"
    /\ \E d \in DrawVectors :
         CallReturns(t, "calculate_room_power", r, [is_active |-> is_active],
                     calculate_room_power(ROOM_CONFIG, r, is_active, d))

CallDailyEnergy(t, r) ==
    CallReturns(t, "calculate_daily_energy", r, NoArg,
                calculate_daily_energy(ROOM_CONFIG, r))

CallDailyCost(t, r) ==
    CallReturns(t, "calculate_daily_cost", r, NoArg,
                calculate_daily_cost(ROOM_CONFIG, r))

CallGetRoomConfig(t, r) ==
    CallReturns(t, "get_room_config", r, NoArg, get_room_config(ROOM_CONFIG, r))

CallGetRoomSchedule(t, r) ==
    CallReturns(t, "get_room_schedule", r, NoArg, get_room_schedule(ROOM_CONFIG, r))

\* generate_historical_data(room_id, hours): current_time = datetime.now(BD_TZ),
\* the clock's second and the fraction of a second within it.
CallHistory(t, r, hours) ==
    /\ pc[t] = "idle"
    /\ \E ms \in Millis, seed \in Seeds :
         CallReturns(t, "generate_historical_data", r, [hours |-> hours, ms |-> ms],
                     generate_historical_data(ROOM_CONFIG, r, hours,
                                              now * 1000 + ms, seed))

\* The clock reads whole seconds since the process started.
InitCore == \E t0 \in {0, TickSeconds} : InitAt(NumRooms, t0)

NextCore ==
    \/ \E r \in AnyRoom : CallGetRoomData("request", r)
    \/ UpdCheck("request")
    \/ UpdStore("request")
    \/ UpdStamp("request")
    \/ TestInRoomData("request")
    \/ \E r \in AnyRoom, is_active \in BOOLEAN : CallRoomPower("request", r, is_active)
    \/ \E r \in AnyRoom : CallDailyEnergy("request", r)
    \/ \E r \in AnyRoom : CallDailyCost("request", r)
    \/ \E r \in AnyRoom : CallGetRoomConfig("request", r)
    \/ \E r \in AnyRoom : CallGetRoomSchedule("request", r)
    \/ \E r \in AnyRoom, hours \in Hours : CallHistory("request", r, hours)
    \/ Return("request")

SpecCore == InitCore /\ [][NextCore]_vars

(****************************** SpecRec ************************************)
\* The recorder against a store that may fail, with monitoring toggled by
\* requests while it runs. With a catalog of RecRooms rooms a refresh that draws
\* more rooms than the catalog has raises, and the summary fails.
InitRec == InitWith(RecRooms)

NextRec ==
    \/ RecordStart("recorder")
    \/ RecordStartFails("recorder")
    \/ UpdCheck("recorder")
    \/ UpdStore("recorder")
    \/ UpdStamp("recorder")
    \/ TestInSummary("recorder")
    \/ SumRet("recorder")
    \/ Insert("recorder")
    \/ InsertFails("recorder")
    \/ CommitTick("recorder")
    \/ CommitFails("recorder")
    \/ ToggleMonitoring("request")
    \/ \E r \in {0, 1, Len(ROOM_CONFIG)} : ToggleRoomMonitoring("request", r)
    \/ Return("request")

SpecRec == InitRec /\ [][NextRec]_vars

(**************************** SpecSample ***********************************)
\* One request thread asking for single rooms (an unknown one, the first and
\* the last) of a catalog of BigRooms rooms, with pauses longer than the
\* refresh period between requests.
InitSample == InitWith(BigRooms)

NextSample ==
    \/ LongTick
    \/ \E r \in {0, 1, Len(ROOM_CONFIG)} : GetRoomStatus("request", r)
    \/ UpdCheck("request")
    \/ UpdStore("request")
    \/ UpdStamp("request")
    \/ TestInRoomStatus("request")
    \/ Return("request")

SpecSample == InitSample /\ [][NextSample]_vars

(**************************** SpecRefresh **********************************)
\* One request thread asking for single rooms of a catalog that is about as
\* large as the number of rooms a refresh draws: one room fewer than
\* MIN_OFFLINE up to MaxCatalog rooms.
SmallCatalogs == (MIN_OFFLINE - 1)..MaxCatalog

InitRefresh == \E n \in SmallCatalogs : InitWith(n)

NextRefresh ==
    \/ LongTick
    \/ \E r \in {1, Len(ROOM_CONFIG)} : GetRoomStatus("request", r)
    \/ UpdCheck("request")
    \/ UpdStore("request")
    \/ UpdStamp("request")
    \/ TestInRoomStatus("request")
    \/ Return("request")

SpecRefresh == InitRefresh /\ [][NextRefresh]_vars

(***************************************************************************)
(*                            Properties                                    *)
(***************************************************************************)

\* A refresh executes: thread t stores a new sample into OFFLINE_ROOMS.
Recomputes(t) == pc[t] = "upd_store" /\ pc'[t] = "upd_stamp"

\* get_building_summary returns in thread t.
SummaryReturns(t) == pc[t] = "sum_ret" /\ pc'[t] # "sum_ret"

\* C1: whenever get_building_summary returns, the active_rooms it returns plus
\* the number of rooms in the offline set at that moment equals total_rooms.
C1_SnapshotBalanced ==
    [][\A t \in Threads :
         SummaryReturns(t) =>
           summary'[t].active_rooms + BagCardinality(OFFLINE_ROOMS')
             = summary'[t].total_rooms]_vars

\* C2: the offline set is recomputed only on the first call or when more than
\* 600 seconds have passed since the last refresh, as measured by the clock
\* reading of the thread that recomputes.
C2_RecomputedOnlyWhenDue ==
    [][\A t \in Threads :
         Recomputes(t) => RefreshDue(LAST_OFFLINE_UPDATE, current_time[t])]_vars

\* Every list random.sample can return for a refresh.
CompleteSamples ==
    UNION {{SetToBag(S) : S \in {X \in SUBSET RoomIds : Cardinality(X) = k}} :
             k \in MIN_OFFLINE..MAX_OFFLINE}

\* C3: a thread about to test membership finds in OFFLINE_ROOMS a complete
\* result of one refresh, and every change of OFFLINE_ROOMS installs a complete
\* result in one step: no reader sees a partially updated set.
C3_ReadersSeeCompleteSets ==
    /\ [](\A t \in Threads : pc[t] = "test" => OFFLINE_ROOMS \in CompleteSamples)
    /\ [][OFFLINE_ROOMS' # OFFLINE_ROOMS => OFFLINE_ROOMS' \in CompleteSamples]_vars

\* A reader is about to test while the other thread has just replaced an
\* earlier refresh's set and not yet stamped the refresh.
C3_Witness ==
    /\ pc["request"] = "test"
    /\ pc["recorder"] = "upd_stamp"
    /\ LAST_OFFLINE_UPDATE # << >>
    /\ rooms["recorder"] # << >>

\* C4: after a refresh, and whenever is_room_active tests membership, the
\* offline set of a catalog of at least 11 rooms has 5 or 6 elements, all of
\* them room ids of the catalog, none of them twice.
C4_OfflineSetShape ==
    (/\ Len(ROOM_CONFIG) >= 11
     /\ \/ LAST_OFFLINE_UPDATE # << >>
        \/ \E t \in Threads : pc[t] \in {"upd_stamp", "test"})
    => /\ BagCardinality(OFFLINE_ROOMS) \in {5, 6}
       /\ BagToSet(OFFLINE_ROOMS) \subseteq RoomIds
       /\ \A r \in BagToSet(OFFLINE_ROOMS) : CopiesIn(r, OFFLINE_ROOMS) = 1

\* A second refresh has drawn 6 rooms and the thread is about to test.
C4_Witness ==
    /\ Len(ROOM_CONFIG) >= 11
    /\ pc["request"] = "test"
    /\ LAST_OFFLINE_UPDATE # << >>
    /\ LAST_OFFLINE_UPDATE[1] > REFRESH_SECONDS
    /\ BagCardinality(OFFLINE_ROOMS) = 6

\* A direct call of core function o has returned in the request thread.
Returned(o) == pc["request"] = "done" /\ op["request"] = o

\* C5: a per-room core operation called for a room id that is not in the
\* catalog returns (an absent or empty result) and does not raise.
C5_UnknownRoomNeverRaises ==
    \A o \in CoreOps :
       (Returned(o) /\ room_id["request"] \notin RoomIds)
         => ret["request"].kind # "raise"

\* The rows room r has in rows sequence q for tick k.
RowsOf(q, r, k) == {j \in DOMAIN q : q[j].room_id = r /\ q[j].tick = k}

IsPrefix(p, q) == Len(p) <= Len(q) /\ \A j \in DOMAIN p : p[j] = q[j]

\* The recorder examines the room at position idx of its summary.
Examines == pc["recorder"] = "insert" /\ pc'["recorder"] \in {"insert", "commit"}
                /\ (idx' # idx)

\* The recorder's tick starts (the scheduler calls record_building_data).
TickStarts == ticks' = ticks + 1

\* C6: a tick that starts with global monitoring disabled changes nothing in
\* the table; in a tick that started with it enabled, the room examined gets
\* a row if and only if its monitoring flag is true; the commit appends exactly
\* the rows so collected; and no room has two rows of one tick.
C6_RowIffMonitored ==
    /\ [][(TickStarts /\ ~MONITORING_ENABLED)
            => (table' = table /\ pending' = pending /\ pc'["recorder"] = "idle")]_vars
    /\ [][Examines =>
            LET r == summary["recorder"].rooms[idx].room_id
            IN  IF ROOM_MONITORING[r]
                THEN pending' = Append(pending, [room_id |-> r, tick |-> ticks])
                ELSE pending' = pending]_vars
    /\ [][table' # table =>
            (pc["recorder"] = "commit" /\ table' = table \o pending)]_vars
    /\ [](\A r \in RoomIds, k \in 1..ticks :
            Cardinality(RowsOf(table \o pending, r, k)) <= 1)

\* A tick has committed the rows of some rooms and left out a room whose flag
\* was off.
C6_Witness ==
    /\ pc["recorder"] = "idle"
    /\ ticks >= 1
    /\ \E r1, r2 \in RoomIds :
         /\ RowsOf(table, r1, ticks) # {}
         /\ RowsOf(table, r2, ticks) = {}
         /\ ~ROOM_MONITORING[r2]

\* The recorder's tick fails: the except clause prints the error.
TickFails == Len(log') = Len(log) + 1 /\ log'[Len(log')].msg = "error"

\* C7: a failing tick leaves the table as it was and the recorder ready for
\* the next tick; the table only ever grows at its end; and every row of the
\* table belongs to a tick that committed, so none of a failed tick's rows is
\* kept.
C7_FailedTickSkipped ==
    /\ [][TickFails => (table' = table /\ pending' = << >>
                          /\ pc'["recorder"] = "idle")]_vars
    /\ [][IsPrefix(table, table')]_vars
    /\ [](\A j \in DOMAIN table :
            \E l \in DOMAIN log :
               log[l].tick = table[j].tick /\ log[l].msg = "recorded")

\* A tick failed at an INSERT and the next tick recorded.
C7_Witness ==
    /\ Len(log) = 2
    /\ log[1].msg = "error" /\ log[1].exc = "insert failed"
    /\ log[2].msg = "recorded"
    /\ table # << >>
    /\ \A j \in DOMAIN table : table[j].tick = 2

\* C8: generate_historical_data for a catalog room returns (hours*60)//5
\* points when that count is positive and none otherwise; consecutive
\* timestamps are exactly 5 minutes apart, oldest first, and the last one is
\* the call's clock reading minus 5 minutes.
C8_HistoryShape ==
    (Returned("generate_historical_data") /\ room_id["request"] \in RoomIds)
    => LET hours == arg["request"].hours
           t_ms == now * 1000 + arg["request"].ms
           count == (hours * 60) \div 5
           points == ret["request"].value
       IN  /\ ret["request"].kind = "value"
           /\ Len(points) = IF count > 0 THEN count ELSE 0
           /\ \A j \in 1..(Len(points) - 1) :
                 points[j + 1].timestamp - points[j].timestamp = 5 * 60
           /\ Len(points) > 0 =>
                 points[Len(points)].timestamp = Strftime(t_ms - 5 * 60 * 1000)

\* A one-hour history was asked in the middle of a second.
C8_Witness ==
    /\ Returned("generate_historical_data")
    /\ room_id["request"] \in RoomIds
    /\ arg["request"].hours = 1
    /\ arg["request"].ms # 0
    /\ Len(ret["request"].value) = 12

\* C9: calculate_room_power returns at least 10 W for an inactive room and at
\* least 100 W for an active one, whatever the profile and the draws.
C9_PowerFloors ==
    (Returned("calculate_room_power") /\ ret["request"].kind = "value")
    => IF arg["request"].is_active
       THEN ret["request"].value >= 100 * 100
       ELSE ret["request"].value >= 10 * 100

\* The floor is what was returned for an active room: its raw sum was lower.
C9_Witness ==
    /\ Returned("calculate_room_power")
    /\ ret["request"].kind = "value"
    /\ arg["request"].is_active
    /\ ret["request"].value = 100 * 100
    /\ ROOM_CONFIG[room_id["request"]] = "bare"

\* The rated sum S of a room: wattage times count over the five kinds.
RatedSum(r) ==
    LET c == Profile(ROOM_CONFIG[r])
    IN  c.wattage.ac * c.equipment.ac + c.wattage.fan * c.equipment.fan
        + c.wattage.light * c.equipment.light
        + c.wattage.projector * c.equipment.projector
        + c.wattage.pc * c.equipment.pc

\* C10: calculate_daily_energy of a catalog room is (S*8 + S*0.05*16)/1000
\* rounded to 2 decimals, so a function of the catalog alone: in hundredths
\* of a kWh it is the integer nearest to 0.88 * S, and 18.74 kWh for S = 2130.
C10_DailyEnergy ==
    (Returned("calculate_daily_energy") /\ room_id["request"] \in RoomIds)
    => LET S == RatedSum(room_id["request"])
           e == ret["request"].value
       IN  /\ ret["request"].kind = "value"
           /\ 100 * e - 88 * S <= 50
           /\ 88 * S - 100 * e <= 50
           /\ S = 2130 => e = 1874

\* The scenario room's daily energy has been computed.
C10_Witness ==
    /\ Returned("calculate_daily_energy")
    /\ room_id["request"] \in RoomIds
    /\ RatedSum(room_id["request"]) = 2130
    /\ ret["request"] = [kind |-> "value", value |-> 1874]

\* A due refresh of the request thread runs its sampling lines.
RefreshAttempted == pc["request"] = "upd_store" /\ pc'["request"] # "upd_store"

\* The sampling raised: the handler answers 500 with the ValueError.
RefreshFailed ==
    /\ pc'["request"] = "done"
    /\ ret'["request"] = Http(500, "ValueError")

OccupancyUnchanged ==
    /\ OFFLINE_ROOMS' = OFFLINE_ROOMS
    /\ LAST_OFFLINE_UPDATE' = LAST_OFFLINE_UPDATE

\* C11, as stated: with a catalog of 6 or fewer rooms a due refresh fails, and
\* the failed refresh leaves the offline set and the last-refresh timestamp
\* unchanged.
C11_RefreshFailsUpToSix ==
    [][(RefreshAttempted /\ Len(ROOM_CONFIG) <= 6)
         => (RefreshFailed /\ OccupancyUnchanged)]_vars

\* C11, amended: a due refresh fails only when it draws more rooms than the
\* catalog has: always with 4 or fewer rooms, never with 6 or more (with 5
\* rooms it fails when 6 is drawn and succeeds when 5 is drawn); a failed
\* refresh leaves the offline set and the last-refresh timestamp unchanged,
\* and a successful one installs 5 or 6 rooms and no more than the catalog has.
C11_RefreshFailsWhenDrawExceedsCatalog ==
    [][RefreshAttempted =>
         /\ Len(ROOM_CONFIG) <= 4 => RefreshFailed
         /\ Len(ROOM_CONFIG) >= 6 => ~RefreshFailed
         /\ RefreshFailed =>
               (Len(ROOM_CONFIG) <= 5 /\ OccupancyUnchanged)
         /\ ~RefreshFailed =>
               /\ pc'["request"] = "upd_stamp"
               /\ BagCardinality(OFFLINE_ROOMS') \in {5, 6}
               /\ BagCardinality(OFFLINE_ROOMS') <= Len(ROOM_CONFIG)]_vars

\* With 5 rooms a first refresh drew 5 and succeeded, and a later due refresh
\* drew 6 and failed: the set and the timestamp of the first are still there.
C11_Witness ==
    /\ Len(ROOM_CONFIG) = 5
    /\ pc["request"] = "done"
    /\ ret["request"] = Http(500, "ValueError")
    /\ LAST_OFFLINE_UPDATE = <<0>>
    /\ now > REFRESH_SECONDS
    /\ BagCardinality(OFFLINE_ROOMS) = 5

\* The request thread runs a toggle handler for a room / the global toggle.
RoomToggled ==
    pc["request"] = "idle" /\ op'["request"] = "toggle_room_monitoring"

GlobalToggled ==
    pc["request"] = "idle" /\ op'["request"] = "toggle_monitoring"

\* The flag store init_room_monitoring leaves: every catalog room on.
AllMonitored == [r \in RoomIds |-> TRUE]

\* C12: a room toggle for a catalog room flips that room's flag and changes no
\* other room's flag nor the global flag; the second of two toggles of one room
\* gives back the flag store there was before the first; a room toggle for a
\* room that is not in the catalog changes no flag; the global toggle flips the
\* global flag and changes no room's flag.
C12_ToggleFrame ==
    /\ [][RoomToggled =>
            LET r == room_id'["request"]
            IN  /\ MONITORING_ENABLED' = MONITORING_ENABLED
                /\ DOMAIN ROOM_MONITORING' = DOMAIN ROOM_MONITORING
                /\ \A x \in RoomIds :
                      ROOM_MONITORING'[x] =
                        IF x = r THEN ~ROOM_MONITORING[x] ELSE ROOM_MONITORING[x]
                /\ r \notin RoomIds => ROOM_MONITORING' = ROOM_MONITORING
                /\ (toggles = 1 /\ r \in RoomIds /\ ~ROOM_MONITORING[r])
                      => ROOM_MONITORING' = AllMonitored]_vars
    /\ [][GlobalToggled =>
            /\ MONITORING_ENABLED' = ~MONITORING_ENABLED
            /\ ROOM_MONITORING' = ROOM_MONITORING]_vars

\* The last room has been toggled twice: its handler has answered "on" the
\* second time and the flag store is the initial one again.
C12_Witness ==
    /\ toggles = 2
    /\ pc["request"] = "done"
    /\ op["request"] = "toggle_room_monitoring"
    /\ room_id["request"] = Len(ROOM_CONFIG)
    /\ ret["request"] = Http(200, TRUE)
    /\ ROOM_MONITORING = AllMonitored
    /\ MONITORING_ENABLED

====
